---- MODULE Spec2Model ----
(***************************************************************************)
(* Model of verify_q3_gap.py: the Archimedean density a_xi, the Fejer x    *)
(* heat window w_window, the truncated periodization P_A_symbol and the    *)
(* grid scan of run_gap_visualization (linspace, one P_A_symbol per grid   *)
(* point, np.min / np.argmin, the margin against C_STAR).                  *)
(*                                                                         *)
(* Floating point is modelled in fixed point: a float x is the integer     *)
(* x * Scale, a product or a quotient is rounded to the nearest unit (ties *)
(* to even), a sum is exact.  The rounding of binary64 that the properties *)
(* depend on is kept: 1 - q rounds to 1 for a q below half a unit, and a   *)
(* quotient |xi| / B with |xi| >= B never rounds below 1.  NaN is one more *)
(* value, absorbing in every operation, as in IEEE 754.                    *)
(***************************************************************************)
EXTENDS Integers, Sequences, FiniteSets, TLC

(* ------------------------------ bounds -------------------------------- *)
\* Fraction bits of the fixed-point numbers.
FracBits == 8
\* Terms of the Taylor series of exp on [0, ln 2).
ExpTerms == 8
\* Terms of the series of the digamma function.
PsiTerms == 12
\* Largest truncation order num_terms (the code's default is 50).
MaxM == 5
\* Largest grid size N_THETA of a first scan (the code uses 2000).
MaxN == 4
\* Largest integer shift k of a periodicity probe.
MaxK == 3

Scale == 2 ^ FracBits
Half == Scale \div 2

(* ------------------------- float arithmetic --------------------------- *)
\* A non-finite float.  It is outside the range of every finite value here.
NaN == 0 - 2 ^ 30

IsFinite(x) == x # NaN

Abs(x) == IF x < 0 THEN 0 - x ELSE x

\* a / b for b > 0, rounded to the nearest integer, ties to even.
RDiv(a, b) ==
    LET q == a \div b
        r == a % b
    IN  IF 2 * r > b \/ (2 * r = b /\ q % 2 = 1) THEN q + 1 ELSE q

FAdd(x, y) == IF x = NaN \/ y = NaN THEN NaN ELSE x + y

FSub(x, y) == IF x = NaN \/ y = NaN THEN NaN ELSE x - y

FMul(x, y) == IF x = NaN \/ y = NaN THEN NaN ELSE RDiv(x * y, Scale)

\* x / y for y # 0.
FDiv(x, y) ==
    IF x = NaN \/ y = NaN THEN NaN
    ELSE IF y > 0 THEN RDiv(x * Scale, y) ELSE RDiv((0 - x) * Scale, 0 - y)

\* An integer n as a float.
Flt(n) == n * Scale

\* np.pi
PI == RDiv(355 * Scale, 113)

\* np.log(np.pi)
LogPi == RDiv(11447 * Scale, 10000)

\* log(2) and the Euler-Mascheroni constant, used by exp and digamma.
Ln2 == RDiv(6931 * Scale, 10000)
EulerGamma == RDiv(5772 * Scale, 10000)

\* exp(-r) for 0 <= r < ln 2: Horner form of the Taylor series from term k.
RECURSIVE ExpSeries(_, _)
ExpSeries(r, k) ==
    IF k > ExpTerms THEN Scale
    ELSE Scale - RDiv(FMul(r, ExpSeries(r, k + 1)), k)

\* np.exp(x) for x <= 0: exp(-y) = 2^(-n) * exp(-r) with y = n ln 2 + r.
\* It underflows to 0, as np.exp does for a very negative argument.
np_exp(x) ==
    IF x = NaN THEN NaN
    ELSE LET y == 0 - x
             n == y \div Ln2
             r == y % Ln2
         IN  IF n > FracBits + 1 THEN 0 ELSE RDiv(ExpSeries(r, 1), 2 ^ n)

\* One term of Re psi(1/4 + iy) = -gamma + sum_n [1/(n+1) - (n+x)/((n+x)^2+y^2)].
PsiTerm(n, y2) ==
    LET nx == Flt(n) + Scale \div 4
    IN  RDiv(Scale, n + 1) - FDiv(nx, FMul(nx, nx) + y2)

RECURSIVE PsiSum(_, _)
PsiSum(n, y2) == IF n >= PsiTerms THEN 0 ELSE PsiTerm(n, y2) + PsiSum(n + 1, y2)

\* np.real(digamma(0.25 + 1j * y)) for a finite y.
digamma_re(y) == PsiSum(0, FMul(y, y)) - EulerGamma

(* ------------------------------ state --------------------------------- *)
VARIABLES
    B_MIN,          \* bandwidth of the window (the module constant B_MIN)
    T_SYM,          \* smoothing time of the window (the module constant T_SYM)
    C_STAR,         \* the floor constant
    NUM_TERMS,      \* truncation order: P_A_symbol's num_terms
    N_THETA,        \* grid size
    nanAt,          \* the arguments at which the digamma evaluation fails (NaN)
    pc,             \* position in run_gap_visualization, or in a probe call
    thetas,         \* the grid
    symbol_values,  \* index -> P_A_symbol(thetas[index]), for the points evaluated
    order,          \* the indices in the order they were evaluated
    min_symbol, min_idx, theta_min, actual_gap,   \* the scan result
    run,            \* 1 in a first scan, 2 in the scan with the grid doubled
    first_min,      \* min_symbol of the first scan, during the second
    args,           \* the arguments of a probe call of a pure function
    ret             \* what the probe call returned

vars == <<B_MIN, T_SYM, C_STAR, NUM_TERMS, N_THETA, nanAt, pc, thetas,
          symbol_values, order, min_symbol, min_idx, theta_min, actual_gap,
          run, first_min, args, ret>>

params == <<B_MIN, T_SYM, C_STAR, NUM_TERMS, nanAt>>
result == <<min_symbol, min_idx, theta_min, actual_gap>>
probe == <<args, ret>>

\* The constants of the source, as floats.
Q3_B_MIN == Flt(3)
Q3_T_SYM == RDiv(6 * Scale, 100)
Q3_C_STAR == RDiv(11 * Scale, 10)

(* ------------------------- the Q3 functions --------------------------- *)
\* a_xi with the sign of the difference reversed.
a_xi_Negated(xi) ==
    IF xi = NaN \/ xi \in nanAt THEN NaN
    ELSE FSub(digamma_re(FMul(PI, xi)), LogPi)

\* a_xi: log(pi) - Re(psi(1/4 + i pi xi)).
a_xi(xi) ==
    IF xi = NaN \/ xi \in nanAt THEN NaN
    ELSE FSub(LogPi, digamma_re(FMul(PI, xi)))

\* np.maximum(0, x)
np_maximum0(x) == IF x = NaN THEN NaN ELSE IF x > 0 THEN x ELSE 0

\* fejer without the clamp at 0.
fejer_NoClamp(xi, B) ==
    IF xi = NaN THEN NaN ELSE FSub(Scale, FDiv(Abs(xi), B))

\* fejer without the absolute value.
fejer_NoAbs(xi, B) ==
    IF xi = NaN THEN NaN ELSE np_maximum0(FSub(Scale, FDiv(xi, B)))

\* fejer with the support one unit too wide.
fejer_Wide(xi, B) ==
    IF xi = NaN THEN NaN
    ELSE np_maximum0(FSub(Scale, FDiv(Abs(xi), B + Scale)))

\* fejer = np.maximum(0, 1 - np.abs(xi) / B)
fejer(xi, B) ==
    IF xi = NaN THEN NaN ELSE np_maximum0(FSub(Scale, FDiv(Abs(xi), B)))

\* heat = np.exp(-4 * (np.pi**2) * t * (xi**2))
heat(xi, t) ==
    IF xi = NaN THEN NaN
    ELSE np_exp(FMul(FMul((0 - 4) * FMul(PI, PI), t), FMul(xi, xi)))

\* w_window with the factors added instead of multiplied.
w_window_Sum(xi, B, t) == FAdd(fejer(xi, B), heat(xi, t))

\* w_window: the Fejer factor times the heat factor.
w_window(xi, B, t) == FMul(fejer(xi, B), heat(xi, t))

\* The loop body with the window taken at theta instead of arg.
Term_WindowAtTheta(theta, m) ==
    LET arg == FAdd(theta, Flt(m))
    IN  FMul(a_xi(arg), w_window(theta, B_MIN, T_SYM))

\* The loop body of P_A_symbol for the translate m: a_xi(arg) * w_window(arg).
Term(theta, m) ==
    LET arg == FAdd(theta, Flt(m))
    IN  FMul(a_xi(arg), w_window(arg, B_MIN, T_SYM))

\* total after the iterations m .. hi of the loop, started from total.
RECURSIVE Accumulate(_, _, _, _)
Accumulate(theta, m, hi, total) ==
    IF m > hi THEN total
    ELSE Accumulate(theta, m + 1, hi, FAdd(total, Term(theta, m)))

\* P_A_symbol: 2 pi times the sum over m in range(-num_terms, num_terms + 1).
P_A_symbol(theta, num_terms) ==
    FMul(2 * PI, Accumulate(theta, 0 - num_terms, num_terms, 0))

(* ----------------------------- the scan ------------------------------- *)
\* np.linspace(start, stop, num) for num >= 0: step = (stop - start) / (num - 1),
\* point i is i * step + start, and the last point is set to stop.
np_linspace(start, stop, num) ==
    LET div == num - 1
        step == IF div > 0 THEN FDiv(stop - start, Flt(div)) ELSE 0
    IN  [i \in 1..num |->
            IF num > 1 /\ i = num THEN stop ELSE (i - 1) * step + start]

\* The values stored in the order in which the evaluations complete.
Collect_CompletionOrder(values, i, v) ==
    LET k == Cardinality(DOMAIN values) + 1
    IN  [j \in (DOMAIN values) \cup {k} |-> IF j = k THEN v ELSE values[j]]

\* The list comprehension stores the value of grid point i at index i.
Collect(values, i, v) ==
    [j \in (DOMAIN values) \cup {i} |-> IF j = i THEN v ELSE values[j]]

\* np.argmin that keeps the last index of the least value.
RECURSIVE ArgminLast(_, _, _, _)
ArgminLast(values, n, i, best) ==
    IF i > n THEN best
    ELSE IF values[best] # NaN /\ (values[i] = NaN \/ values[i] <= values[best])
         THEN ArgminLast(values, n, i + 1, i)
         ELSE ArgminLast(values, n, i + 1, best)

\* np.argmin of a non-empty array, as a 1-based index: the first index of the
\* least value, or of the first NaN.  best is the index kept so far.
RECURSIVE ArgminFrom(_, _, _, _)
ArgminFrom(values, n, i, best) ==
    IF i > n THEN best
    ELSE IF values[best] # NaN /\ (values[i] = NaN \/ values[i] < values[best])
         THEN ArgminFrom(values, n, i + 1, i)
         ELSE ArgminFrom(values, n, i + 1, best)

\* np.argmin(values): 0-based.
np_argmin(values, n) == ArgminFrom(values, n, 2, 1) - 1

\* np.min(values): the least value; NaN if any value is NaN.
np_min(values, n) == values[ArgminFrom(values, n, 2, 1)]

\* thetas = np.linspace(-0.5, 0.5, N_THETA); a negative N_THETA raises ValueError.
Linspace ==
    /\ pc = "grid"
    /\ IF N_THETA < 0
       THEN /\ pc' = "error"
            /\ UNCHANGED thetas
       ELSE /\ pc' = "scan"
            /\ thetas' = np_linspace(0 - Half, Half, N_THETA)
    /\ UNCHANGED <<params, N_THETA, symbol_values, order, result, run, first_min,
                   probe>>

\* One element of [P_A_symbol(th) for th in thetas]: grid point i.
Evaluate(i) ==
    /\ symbol_values' = Collect(symbol_values, i, P_A_symbol(thetas[i], NUM_TERMS))
    /\ order' = Append(order, i)
    /\ UNCHANGED <<params, N_THETA, pc, thetas, result, run, first_min, probe>>

\* The list comprehension of the source: the grid points in ascending order.
EvalPoint ==
    /\ pc = "scan"
    /\ Len(order) < Len(thetas)
    /\ Evaluate(Len(order) + 1)

\* The grid points evaluated as independent tasks, in any order.
EvalAny ==
    /\ pc = "scan"
    /\ \E i \in (DOMAIN thetas) \ (DOMAIN symbol_values) : Evaluate(i)

\* np.min, np.argmin, thetas[min_idx] and the margin; np.min of an empty array
\* raises ValueError.
Reduce ==
    /\ pc = "scan"
    /\ DOMAIN symbol_values = DOMAIN thetas
    /\ IF Len(thetas) = 0
       THEN /\ pc' = "error"
            /\ UNCHANGED result
       ELSE /\ pc' = "done"
            /\ min_symbol' = np_min(symbol_values, Len(thetas))
            /\ min_idx' = np_argmin(symbol_values, Len(thetas))
            /\ theta_min' = thetas[min_idx' + 1]
            /\ actual_gap' = FSub(min_symbol', C_STAR)
    /\ UNCHANGED <<params, N_THETA, thetas, symbol_values, order, run, first_min,
                   probe>>

\* The scan invoked again with the grid size doubled; everything is computed afresh.
Refine ==
    /\ pc = "done"
    /\ run = 1
    /\ run' = 2
    /\ first_min' = min_symbol
    /\ N_THETA' = 2 * N_THETA
    /\ pc' = "grid"
    /\ thetas' = <<>>
    /\ symbol_values' = <<>>
    /\ order' = <<>>
    /\ UNCHANGED <<params, result, probe>>

(* ------------------------- inputs and Init ---------------------------- *)
BSet == {Q3_B_MIN, (3 * Scale) \div 4}
TSet == {Q3_T_SYM, RDiv(Scale, 100)}
CSet == {Q3_C_STAR, Flt(6)}

\* The state before anything runs: the parameters, the position p and the
\* arguments a of a probe call.
Start(b, t, c, m, n, nans, p, a) ==
    /\ B_MIN = b
    /\ T_SYM = t
    /\ C_STAR = c
    /\ NUM_TERMS = m
    /\ N_THETA = n
    /\ nanAt = nans
    /\ pc = p
    /\ thetas = <<>>
    /\ symbol_values = <<>>
    /\ order = <<>>
    /\ min_symbol = 0
    /\ min_idx = 0
    /\ theta_min = 0
    /\ actual_gap = 0
    /\ run = 1
    /\ first_min = 0
    /\ args = a
    /\ ret = <<>>

\* Valid parameters, a digamma evaluation that is finite everywhere.
Init ==
    \E b \in BSet, t \in TSet, c \in CSet, m \in 1..MaxM, n \in 1..MaxN :
        Start(b, t, c, m, n, {}, "grid", <<>>)

\* run_gap_visualization as written: the grid points in ascending order.
Next == Linspace \/ EvalPoint \/ Reduce

Spec == Init /\ [][Next]_vars

\* The grid points evaluated in any order.
NextAnyOrder == Linspace \/ EvalAny \/ Reduce

SpecAnyOrder == Init /\ [][NextAnyOrder]_vars

\* A scan followed by a scan of the doubled grid.
NextRefine == Linspace \/ EvalPoint \/ Reduce \/ Refine

SpecRefine == Init /\ [][NextRefine]_vars

\* The arguments at which the digamma evaluation may fail: 0.5 and -0.5 (inside
\* the support of either window, reached from the grid's end points) and 3.5
\* (outside it).
FaultSet == {Half, 0 - Half, Half + Flt(3)}

\* As Init, with a digamma evaluation that returns NaN at one argument.
InitFault ==
    \E b \in BSet, t \in TSet, c \in CSet, m \in 1..MaxM, n \in 1..MaxN,
       x \in FaultSet :
        Start(b, t, c, m, n, {x}, "grid", <<>>)

SpecFault == InitFault /\ [][Next]_vars

\* Parameters that may be non-positive.  B = 0 (a division by zero) and t < 0
\* (a growing exponential) are left out.
InitParams ==
    \E b \in {Q3_B_MIN, 0 - Q3_B_MIN}, t \in {Q3_T_SYM, 0}, m \in (0 - 1)..1,
       n \in (0 - 1)..2 :
        Start(b, t, Q3_C_STAR, m, n, {}, "grid", <<>>)

SpecParams == InitParams /\ [][Next]_vars

(* ------------------ probe calls of the pure functions ----------------- *)
\* The arguments xi of a w_window call: the multiples of 1/4 up to 4 in
\* magnitude, the smallest non-zero floats, and the floats next to +-B.
XiSet ==
    {j * (Scale \div 4) : j \in (0 - 16)..16}
        \cup {0 - 2, 0 - 1, 1, 2}
        \cup {s * (b + d) : s \in {0 - 1, 1}, b \in BSet, d \in {0 - 1, 1}}

InitWindow ==
    \E b \in BSet, t \in TSet, x \in XiSet :
        Start(b, t, Q3_C_STAR, 1, 1, {}, "call", [xi |-> x])

\* ret = w_window(xi, B, t)
WindowCall ==
    /\ pc = "call"
    /\ pc' = "returned"
    /\ ret' = w_window(args.xi, B_MIN, T_SYM)
    /\ UNCHANGED <<params, N_THETA, thetas, symbol_values, order, result, run,
                   first_min, args>>

SpecWindow == InitWindow /\ [][WindowCall]_vars

\* The torus coordinates of a P_A_symbol call.
ThetaSet == {0 - Half, 0 - (Scale \div 4), 0, Scale \div 4, Half}

\* The translates whose terms a probe records.
TermRange == (0 - (MaxM + 1))..(MaxM + 1)

\* A call at theta with num_terms = NUM_TERMS, next to either the call at
\* theta + k or the call with num_terms = M2.
InitSymbol ==
    \E b \in BSet, t \in TSet, th \in ThetaSet, m \in 1..MaxM :
        \/ \E k \in (0 - MaxK)..MaxK :
               Start(b, t, Q3_C_STAR, m, 1, {}, "call",
                     [theta |-> th, k |-> k, M2 |-> m])
        \/ \E m2 \in 1..MaxM :
               Start(b, t, Q3_C_STAR, m, 1, {}, "call",
                     [theta |-> th, k |-> 0, M2 |-> m2])

\* ret = the values of P_A_symbol, and the terms of its loop at theta.
SymbolCall ==
    /\ pc = "call"
    /\ pc' = "returned"
    /\ ret' = [base |-> P_A_symbol(args.theta, NUM_TERMS),
               shifted |-> P_A_symbol(args.theta + Flt(args.k), NUM_TERMS),
               other |-> P_A_symbol(args.theta, args.M2),
               terms |-> [m \in TermRange |-> Term(args.theta, m)]]
    /\ UNCHANGED <<params, N_THETA, thetas, symbol_values, order, result, run,
                   first_min, args>>

SpecSymbol == InitSymbol /\ [][SymbolCall]_vars

(* ------------------------------ claims -------------------------------- *)
\* The grid is complete and the scan has produced its result.
Done == pc = "done"

\* C1: when a scan completes, min_symbol is the least of the grid's symbol
\* values, min_idx is the lowest index (the lowest theta) that attains it,
\* theta_min is that grid point and actual_gap = min_symbol - C_STAR, whatever
\* its sign; a scan with valid parameters never ends in an error.
C1_MinArgminMargin ==
    /\ pc # "error"
    /\ Done =>
        /\ \A i \in 1..N_THETA : min_symbol <= symbol_values[i]
        /\ symbol_values[min_idx + 1] = min_symbol
        /\ \A i \in 1..min_idx :
              symbol_values[i] > min_symbol /\ thetas[i] < theta_min
        /\ theta_min = thetas[min_idx + 1]
        /\ actual_gap = min_symbol - C_STAR

\* C1 witness: a completed scan whose minimum is attained at two grid points
\* and lies below the floor constant.
C1_Witness ==
    /\ Done
    /\ actual_gap < 0
    /\ \E i \in 1..N_THETA : i # min_idx + 1 /\ symbol_values[i] = min_symbol

\* Some term of some grid point has its argument inside the window's support
\* and a digamma evaluation that fails there.
InSupportFault ==
    \E i \in DOMAIN thetas, m \in (0 - NUM_TERMS)..NUM_TERMS :
        /\ thetas[i] + Flt(m) \in nanAt
        /\ Abs(thetas[i] + Flt(m)) < B_MIN

\* C2: a non-finite density value inside the window's support never reaches
\* the result: a scan that completes holds only finite values.
C2_NonFiniteNeverReported ==
    (Done /\ InSupportFault) =>
        /\ \A i \in 1..N_THETA : IsFinite(symbol_values[i])
        /\ IsFinite(min_symbol)
        /\ IsFinite(actual_gap)

\* A parameter that must be positive is not.
ParamsInvalid == B_MIN <= 0 \/ T_SYM <= 0 \/ N_THETA <= 0 \/ NUM_TERMS <= 0

\* C3: with a non-positive B, t, N or M no symbol value is evaluated and no
\* scan result is produced.
C3_InvalidParametersRejected ==
    ParamsInvalid => (DOMAIN symbol_values = {} /\ ~Done)

\* A probe call has returned.
Returned == pc = "returned"

\* The truncation order num_terms reaches every translate of theta that lies
\* inside the window's support: num_terms >= |theta| + B.
Covers(num_terms, theta) == Flt(num_terms) >= Abs(theta) + B_MIN

Ceil(x) == 0 - ((0 - x) \div Scale)

\* theta lies in the fundamental domain [-0.5, 0.5].
InDomain(theta) == Abs(theta) <= Half

\* C5: for theta in [-0.5, 0.5] the symbol is the same for every two
\* truncation orders M, M' >= ceil(B) + 1, every term with |m| > B + 0.5
\* being zero.
C5_TruncationIndependent ==
    (Returned /\ InDomain(args.theta)) =>
        /\ \A m \in TermRange : Flt(Abs(m)) > B_MIN + Half => ret.terms[m] = 0
        /\ (NUM_TERMS >= Ceil(B_MIN) + 1 /\ args.M2 >= Ceil(B_MIN) + 1)
              => ret.other = ret.base

\* C5 witness: two different truncation orders, both at least ceil(B) + 1, and
\* a non-zero symbol.
C5_Witness ==
    /\ Returned
    /\ InDomain(args.theta)
    /\ NUM_TERMS >= Ceil(B_MIN) + 1
    /\ args.M2 > NUM_TERMS
    /\ ret.base # 0
    /\ ret.other = ret.base

\* C6: the scan of the doubled grid reports a minimum that is not above the
\* minimum of the first scan.
C6_RefinedMinNotHigher == (Done /\ run = 2) => min_symbol <= first_min

\* C6 witness: a scan of 3 points followed by a scan of 6 points, whose grid
\* does not contain the first grid's middle point.
C6_Witness ==
    /\ Done
    /\ run = 2
    /\ N_THETA = 6
    /\ \A i \in 1..N_THETA : thetas[i] # 0

\* C7: w_window is never negative, and it is exactly 0 for |xi| >= B.
C7_ZeroOutsideSupport ==
    Returned => (ret >= 0 /\ (Abs(args.xi) >= B_MIN => ret = 0))

\* C7 witness: w_window at |xi| = B exactly.
C7_Witness == Returned /\ Abs(args.xi) = B_MIN /\ ret = 0

SequentialValues == [i \in 1..N_THETA |-> P_A_symbol(thetas[i], NUM_TERMS)]

\* C9: in whatever order the grid points were evaluated, the result is that of
\* the ascending scan: the least symbol value, the lowest index that attains
\* it, its grid point and the margin.
C9_OrderIndependent ==
    Done =>
        LET values == SequentialValues
        IN  /\ symbol_values = values
            /\ \A i \in 1..N_THETA : min_symbol <= values[i]
            /\ values[min_idx + 1] = min_symbol
            /\ \A i \in 1..min_idx : values[i] > min_symbol
            /\ theta_min = thetas[min_idx + 1]
            /\ actual_gap = min_symbol - C_STAR

\* C9 witness: a completed scan that evaluated the last grid point first, with
\* the minimum attained at two grid points.
C9_Witness ==
    /\ Done
    /\ N_THETA >= 3
    /\ order[1] = N_THETA
    /\ \E i \in 1..N_THETA : i # min_idx + 1 /\ symbol_values[i] = min_symbol

\* C10 as stated: for theta in [-0.5, 0.5] every translate with |m| > B
\* contributes exactly zero.
C10_ZeroBeyondB ==
    (Returned /\ InDomain(args.theta)) =>
        \A m \in TermRange : Flt(Abs(m)) > B_MIN => ret.terms[m] = 0

\* C10 amended: for theta in [-0.5, 0.5] every translate with |m| >= B + 0.5
\* contributes exactly zero, so the symbol is the same for every truncation
\* order M >= ceil(B).
C10_ZeroBeyondSupport ==
    (Returned /\ InDomain(args.theta)) =>
        /\ \A m \in TermRange : Flt(Abs(m)) >= B_MIN + Half => ret.terms[m] = 0
        /\ (NUM_TERMS >= Ceil(B_MIN) /\ args.M2 >= Ceil(B_MIN))
              => ret.other = ret.base

\* C10 witness: the truncation order ceil(B) next to a larger one, at the edge
\* of the fundamental domain, with a non-zero symbol.
C10_Witness ==
    /\ Returned
    /\ Abs(args.theta) = Half
    /\ NUM_TERMS = Ceil(B_MIN)
    /\ args.M2 > NUM_TERMS
    /\ ret.base # 0
    /\ ret.other = ret.base

====
